---- MODULE Spec2Model ----
(***************************************************************************)
(* Sentinel-2 acquisition-plan table builder (sentinel_2_acq_table.py):    *)
(* document cache, KML plan parser, point query and TSV export.            *)
(*                                                                         *)
(* Text is modelled as a sequence of atoms.  An atom is either one of the  *)
(* characters the code treats specially (space, tab, newline, carriage     *)
(* return, double quote) or a run of other characters ("2024-01-01").      *)
(* A missing value (Python None / pandas NaN) is the reserved text None.   *)
(***************************************************************************)
EXTENDS Integers, Sequences, FiniteSets, TLC

VARIABLES
    pc,                   \* position of __main__: "index", "load", "query", "done"
    index_page,           \* this run's index request: "unread", "error" or "ok"
    latest_kml_filenames, \* satellites the index page yielded, in dict order
    pending,              \* satellites the download loop has still to process
    kml_data_objects,     \* loaded record collections, in insertion order
    todo,                 \* query locations the export loop has still to process
    cache,                \* the output directory's cached documents, by path
    got,                  \* per satellite, what this run's download step obtained
    fetched,              \* cache paths this run invoked curl for
    reused,               \* cache paths whose existing file this run reused
    asked,                \* locations this run called the query for
    queried,              \* per location, the rows this run's query returned
    indexer,              \* per location, the indexer this run's sort returned
    written,              \* the text this run wrote to each TSV path
    writes,               \* every open(..., "w") of this run (output paths)
    fn_pc,                \* position of the function harnesses
    fn_value,             \* input of _sanitize_for_table
    fn_cell,              \* its result
    fn_cell2,             \* the result of sanitizing fn_cell again
    fn_point,             \* (lon, lat) for collect_acq_plans_over_location
    fn_objects,           \* its record collections
    fn_result             \* its result

vars == <<pc, index_page, latest_kml_filenames, pending, kml_data_objects, todo,
          cache, got, fetched, reused, asked, queried, indexer, written, writes,
          fn_pc, fn_value, fn_cell, fn_cell2,
          fn_point, fn_objects, fn_result>>

mainVars == <<pc, index_page, latest_kml_filenames, pending, kml_data_objects, todo,
              cache, got, fetched, reused, asked, queried, indexer, written, writes>>

fnVars == <<fn_pc, fn_value, fn_cell, fn_cell2,
            fn_point, fn_objects, fn_result>>

----------------------------------------------------------------------------
(* Bounds of the model *)

\* longest input text given to _sanitize_for_table
MaxLen == 3

----------------------------------------------------------------------------
(* Text *)

None == <<"<None>">>

isna(v) == v = None

\* a value that is neither a string nor missing, given by the text str() makes of it
Object(text) == <<"<object>">> \o text

isinstance_str(v) == v = <<>> \/ v[1] \notin {"<None>", "<object>"}

\* str(value) of such a value
str_of(v) == Tail(v)

\* str.isspace() on the characters the model distinguishes
Whitespace == {" ", "\t", "\n", "\r"}

\* value.split(): the maximal runs of characters that are not whitespace
str_split(value) ==
    LET n == Len(value)
        starts == {i \in 1..n : /\ value[i] \notin Whitespace
                                /\ (i = 1 \/ value[i - 1] \in Whitespace)}
        kth(k) == CHOOSE i \in starts : Cardinality({j \in starts : j <= i}) = k
        endOf(i) == CHOOSE j \in i..n :
                        /\ \A m \in i..j : value[m] \notin Whitespace
                        /\ (j = n \/ value[j + 1] \in Whitespace)
    IN  [k \in 1..Cardinality(starts) |-> SubSeq(value, kth(k), endOf(kth(k)))]

RECURSIVE Flatten(_)
\* the concatenation of a sequence of texts
Flatten(parts) ==
    IF parts = <<>> THEN <<>>
    ELSE IF Len(parts) = 1 THEN parts[1]
    ELSE LET half == Len(parts) \div 2
         IN  Flatten(SubSeq(parts, 1, half)) \o Flatten(SubSeq(parts, half + 1, Len(parts)))

\* sep.join(parts)
str_join(sep, parts) ==
    Flatten([i \in 1..Len(parts) |-> IF i = 1 THEN parts[i] ELSE sep \o parts[i]])

RECURSIVE str_rstrip(_)
\* text.rstrip()
str_rstrip(text) ==
    IF text = <<>> THEN <<>>
    ELSE IF text[Len(text)] \in Whitespace
         THEN str_rstrip(SubSeq(text, 1, Len(text) - 1))
         ELSE text

RECURSIVE str_lstrip(_)
str_lstrip(text) ==
    IF text = <<>> THEN <<>>
    ELSE IF Head(text) \in Whitespace THEN str_lstrip(Tail(text)) ELSE text

\* text.strip()
str_strip(text) == str_rstrip(str_lstrip(text))

\* text.split(sep): every field between separators, empty ones included
RECURSIVE str_split_on(_, _)
str_split_on(text, sep) ==
    IF \A i \in DOMAIN text : text[i] # sep
    THEN <<text>>
    ELSE LET first == CHOOSE i \in DOMAIN text :
                          text[i] = sep /\ \A j \in 1..(i - 1) : text[j] # sep
         IN  <<SubSeq(text, 1, first - 1)>>
                \o str_split_on(SubSeq(text, first + 1, Len(text)), sep)

----------------------------------------------------------------------------
(* Table exporter: _sanitize_for_table, dataframe_to_tsv *)

\* def _sanitize_for_table(value)
sanitize_for_table(value) ==
    IF isinstance_str(value)
    THEN str_join(<<" ">>, str_split(value))
    ELSE IF isna(value)
    THEN <<>>
    ELSE str_of(value)

\* csv.writer, QUOTE_MINIMAL: the characters that make a field quoted
QuoteTriggers == {"\t", "\"", "\n", "\r"}

csv_needs_quote(field, alone) ==
    \/ \E i \in 1..Len(field) : field[i] \in QuoteTriggers
    \/ alone /\ field = <<>>

\* doublequote=True: a quote character inside a quoted field is written twice
csv_double_quotes(field) ==
    Flatten([i \in 1..Len(field) |->
                IF field[i] = "\"" THEN <<"\"", "\"">> ELSE <<field[i]>>])

\* one field as csv.writer writes it
csv_field(field, alone) ==
    IF csv_needs_quote(field, alone)
    THEN <<"\"">> \o csv_double_quotes(field) \o <<"\"">>
    ELSE field

\* one record: fields joined by the tab separator, ended by the line terminator
csv_row(cells) ==
    str_join(<<"\t">>, [i \in 1..Len(cells) |-> csv_field(cells[i], Len(cells) = 1)])
        \o <<"\n">>

csv_rows(rows) == Flatten([r \in 1..Len(rows) |-> csv_row(rows[r])])

\* df.to_csv(buffer, sep="\t", index=False, lineterminator="\n");
\* a data frame is [columns |-> names, rows |-> sequence of functions on them]
to_csv(df) ==
    csv_row([i \in 1..Len(df.columns) |-> <<df.columns[i]>>])
        \o csv_rows([r \in 1..Len(df.rows) |->
                        [i \in 1..Len(df.columns) |-> df.rows[r][df.columns[i]]]])

\* sanitized[column] = sanitized[column].map(_sanitize_for_table)
sanitize_df(df) ==
    [columns |-> df.columns,
     rows    |-> [r \in 1..Len(df.rows) |->
                    [c \in DOMAIN df.rows[r] |-> sanitize_for_table(df.rows[r][c])]]]

\* def dataframe_to_tsv(df)
dataframe_to_tsv(df) == str_rstrip(to_csv(sanitize_df(df)))

----------------------------------------------------------------------------
(* Configuration *)

\* satellites = ["Sentinel-2A", "Sentinel-2B", "Sentinel-2C"]
satellites == <<"Sentinel-2A", "Sentinel-2B", "Sentinel-2C">>

\* satellite_name as characters, for satellite_name[:3]
SatelliteChars(s) == <<"S", "e", "n", "t", "i", "n", "e", "l", "-", "2">>
                        \o <<CASE s = "Sentinel-2A" -> "A"
                               [] s = "Sentinel-2B" -> "B"
                               [] OTHER -> "C">>

TABLE_COLUMNS == <<"Polygon", "ID", "TimeSpan.begin", "TimeSpan.end", "OrbitAbsolute",
                   "OrbitRelative", "Scenes", "id", "Name", "timestamp", "icon",
                   "Timeliness", "Station", "Mode", "ObservationTimeStart",
                   "ObservationTimeStop", "ObservationDuration", "layer">>

extended_fields == <<"ID", "Timeliness", "Station", "Mode", "ObservationTimeStart",
                     "ObservationTimeStop", "ObservationDuration", "OrbitAbsolute",
                     "OrbitRelative", "Scenes", "timestamp">>

\* locations, as (lon, lat) in hundredths of a degree, and location_files
locations == <<[name |-> "Seattle, WA",  point |-> <<-12233, 4761>>, file |-> "sea.tsv"],
               [name |-> "New York, NY", point |-> <<-7401, 4071>>,  file |-> "jfk.tsv"],
               [name |-> "Chicago, IL",  point |-> <<-8765, 4185>>,  file |-> "ord.tsv"]>>

Range(f) == {f[i] : i \in DOMAIN f}

----------------------------------------------------------------------------
(* File names *)

LowerOf == [c \in {"K", "M", "L", "S", "A", "B", "C"} |->
              CASE c = "K" -> "k" [] c = "M" -> "m" [] c = "L" -> "l" [] c = "S" -> "s"
                [] c = "A" -> "a" [] c = "B" -> "b" [] OTHER -> "c"]

UpperOf == [c \in {"k", "m", "l", "s", "a", "b", "c", "e", "n", "p"} |->
              CASE c = "k" -> "K" [] c = "m" -> "M" [] c = "l" -> "L" [] c = "s" -> "S"
                [] c = "a" -> "A" [] c = "b" -> "B" [] c = "c" -> "C" [] c = "e" -> "E"
                [] c = "n" -> "N" [] OTHER -> "P"]

str_lower(t) == [i \in 1..Len(t) |-> IF t[i] \in DOMAIN LowerOf THEN LowerOf[t[i]] ELSE t[i]]

str_upper(t) == [i \in 1..Len(t) |-> IF t[i] \in DOMAIN UpperOf THEN UpperOf[t[i]] ELSE t[i]]

str_endswith(t, suffix) ==
    /\ Len(t) >= Len(suffix)
    /\ SubSeq(t, Len(t) - Len(suffix) + 1, Len(t)) = suffix

RECURSIVE basename(_)
\* os.path.basename
basename(path) ==
    IF \E i \in 1..Len(path) : path[i] = "/"
    THEN basename(Tail(path))
    ELSE path

DotKml == <<".", "k", "m", "l">>

\* the kml_filename the index page yields for each satellite
KmlFilename(s) ==
    CASE s = "Sentinel-2A" -> <<"S", "2", "A", "_", "p", ".", "k", "m", "l">>
      [] s = "Sentinel-2B" -> <<"d", "/", "s", "2", "b">>
      [] OTHER             -> <<".", "K", "M", "L">>

filename_root(kml_filename) ==
    LET b == basename(kml_filename)
    IN  IF str_endswith(str_lower(b), DotKml) THEN SubSeq(b, 1, Len(b) - 4) ELSE b

\* local_filepath, relative to output_dir
local_filepath(kml_filename) == filename_root(kml_filename) \o DotKml

layer_code(satellite_name, kml_filename) ==
    LET root == filename_root(kml_filename)
        base_prefix == IF root # <<>>
                       THEN SubSeq(root, 1, IF Len(root) < 3 THEN Len(root) ELSE 3)
                       ELSE SubSeq(SatelliteChars(satellite_name), 1, 3)
    IN  str_upper(base_prefix)

CachePaths == {local_filepath(KmlFilename(satellites[i])) : i \in DOMAIN satellites}

----------------------------------------------------------------------------
(* Geometry: shapely's contains(point), as GEOS's ray-crossing counter *)

\* sign of the turn p1 -> p2 -> q : positive when q lies to the left
orientationIndex(p1, p2, q) ==
    LET d == (p2[1] - p1[1]) * (q[2] - p1[2]) - (p2[2] - p1[2]) * (q[1] - p1[1])
    IN  IF d > 0 THEN 1 ELSE IF d < 0 THEN -1 ELSE 0

\* what one ring segment contributes for the ray from p towards +x
countSegment(p1, p2, p) ==
    IF p1[1] < p[1] /\ p2[1] < p[1] THEN "none"
    ELSE IF p = p2 THEN "on"
    ELSE IF p1[2] = p[2] /\ p2[2] = p[2]
         THEN IF \/ (p1[1] <= p[1] /\ p[1] <= p2[1])
                 \/ (p2[1] <= p[1] /\ p[1] <= p1[1])
              THEN "on" ELSE "none"
    ELSE IF \/ (p1[2] > p[2] /\ p2[2] <= p[2])
            \/ (p2[2] > p[2] /\ p1[2] <= p[2])
         THEN LET o == orientationIndex(p1, p2, p)
                  sign == IF p2[2] < p1[2] THEN -o ELSE o
              IN  IF o = 0 THEN "on" ELSE IF sign > 0 THEN "cross" ELSE "none"
    ELSE "none"

RingSegment(ring, i) == <<ring[i], ring[(i % Len(ring)) + 1]>>

\* a containment test on the footprint's bounding box alone
contains_bbox(geometry, point) ==
    /\ geometry # <<>>
    /\ \E i \in 1..Len(geometry) : geometry[i][1] < point[1]
    /\ \E i \in 1..Len(geometry) : geometry[i][1] > point[1]
    /\ \E i \in 1..Len(geometry) : geometry[i][2] < point[2]
    /\ \E i \in 1..Len(geometry) : geometry[i][2] > point[2]

\* geometry.contains(point): the point lies in the polygon's interior
contains(geometry, point) ==
    /\ geometry # <<>>
    /\ LET kind == [i \in 1..Len(geometry) |->
                      countSegment(RingSegment(geometry, i)[1],
                                   RingSegment(geometry, i)[2], point)]
       IN  /\ \A i \in 1..Len(geometry) : kind[i] # "on"
           /\ Cardinality({i \in 1..Len(geometry) : kind[i] = "cross"}) % 2 = 1

----------------------------------------------------------------------------
(* Planning documents *)

\* footprints, vertices as (lon, lat) in hundredths of a degree
SwathSeattle == <<<<-12300, 4700>>, <<-12200, 4700>>, <<-12200, 4800>>, <<-12300, 4800>>>>
SwathMidwest == <<<<-9000, 4000>>, <<-8000, 4000>>, <<-8000, 4300>>, <<-9000, 4300>>>>
SwathPuget   == <<<<-12250, 4750>>, <<-12150, 4750>>, <<-12150, 4850>>, <<-12250, 4850>>>>
SwathNewYork == <<<<-7500, 4000>>, <<-7300, 4000>>, <<-7400, 4200>>>>
UnitSquare   == <<<<0, 0>>, <<10, 0>>, <<10, 10>>, <<0, 10>>>>
NoPolygon    == <<>>

\* a Placemark element: the text of its name, TimeSpan/begin, TimeSpan/end and
\* styleUrl children (None when the element is absent), the vertices of its first
\* Polygon's coordinates, and its ExtendedData as a mapping of Data names to text
Placemark(name, begin, end, styleUrl, coords, data) ==
    [name |-> name, begin |-> begin, end |-> end, styleUrl |-> styleUrl,
     coords |-> coords, data |-> data]

NoData == <<>>

\* a document whose only NOMINAL layer is shadowed by a later layer of another kind
DocA ==
    [kind |-> "kml", name_col |-> "Name", layers |-> <<
        [name |-> <<"NOMINAL">>, placemarks |-> <<
            Placemark(<<"a1">>, <<"2024-01-02">>, <<"2024-01-03">>, <<"#nom">>, SwathSeattle,
                      ("ID" :> <<"1">>) @@ ("Station" :> <<"S", "\"", "G">>)
                        @@ ("timestamp" :> <<"2024-01-02">>)),
            Placemark(<<"a2">>, <<" ", "2024-01-01", "\n">>, None, None, SwathMidwest,
                      ("Station" :> <<"M", "\"", "\t", " ", "T">>) @@ ("Mode" :> <<>>)),
            Placemark(<<"a3">>, <<"2024-01-04">>, None, None, UnitSquare, NoData) >>],
        [name |-> <<"EXTRA">>, placemarks |-> <<
            Placemark(<<"a1">>, <<"2024-01-09">>, None, <<"#extra">>, UnitSquare,
                      ("Station" :> <<"X">>)) >>] >>]

\* a document read with a lower-case name column; two NOMINAL layers, the second
\* with a placemark that has no name and one whose name the first layer also uses
DocB ==
    [kind |-> "kml", name_col |-> "name", layers |-> <<
        [name |-> <<"X", "NOMINAL">>, placemarks |-> <<
            Placemark(<<"b9">>, <<"2024-01-05">>, None, None, SwathSeattle, NoData) >>],
        [name |-> <<"NOMINAL", "_B">>, placemarks |-> <<
            Placemark(<<"b1">>, <<"2024-01-02">>, <<"2024-01-02">>, None, SwathSeattle,
                      ("ID" :> <<"7">>)),
            Placemark(<<"b2">>, <<"2024-01-05">>, None, <<"#nom">>, SwathSeattle,
                      ("Station" :> <<"KSE">>)),
            Placemark(<<"b3">>, <<"not-a-date">>, None, None, SwathNewYork, NoData) >>],
        [name |-> <<"NOMINAL", "_C">>, placemarks |-> <<
            Placemark(None, <<"2024-01-01">>, None, None, SwathMidwest, NoData),
            Placemark(<<"b4">>, <<"2024-01-04">>, None, None, NoPolygon, NoData),
            Placemark(<<"b2">>, None, None, None, SwathPuget,
                      ("Mode" :> <<"NOBS">>)) >>] >>]

\* a well-formed document without any NOMINAL layer
DocNoNominal ==
    [kind |-> "kml", name_col |-> "Name", layers |-> <<
        [name |-> <<"EXTRA">>, placemarks |-> <<
            Placemark(<<"n1">>, <<"2024-01-01">>, None, None, SwathSeattle, NoData) >>] >>]

DocMenu == {DocA, DocB, DocNoNominal}

\* file contents that are no planning document
NoFile      == [kind |-> "absent"]
ErrorPage   == [kind |-> "errorpage"]
PartialFile == [kind |-> "partial"]

----------------------------------------------------------------------------
(* Plan parser: download_and_parse_kml, augment_gdf_with_metadata *)

\* elem.text.strip() if elem is not None and elem.text else None
text_or_none(raw) == IF raw = None \/ raw = <<>> THEN None ELSE str_strip(raw)

\* one coordinate tuple of a <coordinates> element, as written in the document
CoordToken(v) == ToString(v[1]) \o "," \o ToString(v[2]) \o ",0"

\* 'POLYGON Z ((' + ', '.join(coords_elem.text.split()) + '))', or 'POLYGON Z EMPTY'
polygon_text(coords) ==
    IF coords # <<>>
    THEN <<"POLYGON", " ", "Z", " ", "((">>
            \o str_join(<<",", " ">>, [i \in 1..Len(coords) |-> <<CoordToken(coords[i])>>])
            \o <<"))">>
    ELSE <<"POLYGON", " ", "Z", " ", "EMPTY">>

\* the dictionary stored for one named placemark; ExtendedData keys win
placemark_entry(pm) ==
    [k \in DOMAIN pm.data |-> str_strip(pm.data[k])]
        @@ ("begin" :> text_or_none(pm.begin))
        @@ ("end" :> text_or_none(pm.end))
        @@ ("icon" :> text_or_none(pm.styleUrl))
        @@ ("Polygon" :> polygon_text(pm.coords))

RECURSIVE FlattenPlacemarks(_)
FlattenPlacemarks(layers) ==
    IF layers = <<>> THEN <<>>
    ELSE Head(layers).placemarks \o FlattenPlacemarks(Tail(layers))

\* root.findall('.//kml:Placemark'): every placemark of the document, in order
all_placemarks(doc) == FlattenPlacemarks(doc.layers)

RECURSIVE placemark_metadata(_, _)
\* the loop filling placemark_metadata: a later placemark replaces the entry of
\* an earlier one of the same name
placemark_metadata(pms, acc) ==
    IF pms = <<>> THEN acc
    ELSE LET pm == Head(pms)
         IN  IF pm.name = None \/ pm.name = <<>>
             THEN placemark_metadata(Tail(pms), acc)
             ELSE placemark_metadata(Tail(pms),
                                     (str_strip(pm.name) :> placemark_entry(pm)) @@ acc)

\* layer.startswith('NOMINAL')
startswith_nominal(layer_name) == layer_name # <<>> /\ layer_name[1] = "NOMINAL"

\* gpd.read_file(local_filepath, layer=layer): one row per feature of the layer
read_file(doc, layer) ==
    [i \in 1..Len(layer.placemarks) |->
        (doc.name_col :> layer.placemarks[i].name)
            @@ ("geometry" :> layer.placemarks[i].coords)]

RECURSIVE read_nominal_layers(_, _)
\* the layer loop of download_and_parse_kml and pd.concat(gdf_list)
read_nominal_layers(doc, layers) ==
    IF layers = <<>> THEN <<>>
    ELSE (IF startswith_nominal(Head(layers).name)
          THEN read_file(doc, Head(layers)) ELSE <<>>)
         \o read_nominal_layers(doc, Tail(layers))

gdf_columns(name_col) ==
    <<name_col, "geometry", "TimeSpan.begin", "TimeSpan.end", "icon", "Polygon">>
        \o extended_fields \o <<"id", "layer", "satellite">>

fillna(v, w) == IF isna(v) THEN w ELSE v

\* def augment_gdf_with_metadata(kml_path, gdf, layer_code, satellite_name)
augment_gdf_with_metadata(doc, rows, code, satellite_name) ==
    LET meta == placemark_metadata(all_placemarks(doc), <<>>)
        name_col == doc.name_col
        map_field(n, field, default_value) ==
            IF n \in DOMAIN meta /\ field \in DOMAIN meta[n]
            THEN meta[n][field] ELSE default_value
        augmented(row) ==
            LET n == row[name_col]
                begin == map_field(n, "begin", None)
            IN  [c \in Range(gdf_columns(name_col)) |->
                    CASE c = name_col         -> n
                      [] c = "geometry"       -> row["geometry"]
                      [] c = "TimeSpan.begin" -> begin
                      [] c = "TimeSpan.end"   -> map_field(n, "end", None)
                      [] c = "icon"           -> map_field(n, "icon", None)
                      [] c = "Polygon"        -> map_field(n, "Polygon", <<>>)
                      [] c = "timestamp"      -> fillna(map_field(n, "timestamp", None), begin)
                      [] c = "id"             -> fillna(map_field(n, "ID", None), n)
                      [] c = "layer"          -> code
                      [] c = "satellite"      -> <<satellite_name>>
                      [] OTHER                -> map_field(n, c, None)]
    IN  [columns |-> gdf_columns(name_col),
         rows    |-> [i \in 1..Len(rows) |-> augmented(rows[i])]]

NoGdf == [ok |-> FALSE, columns |-> <<>>, rows |-> <<>>]

\* the try block of download_and_parse_kml: the GeoDataFrame, or None on any exception
parse_kml(file, code, satellite_name) ==
    IF file.kind # "kml" THEN NoGdf
    ELSE IF ~\E i \in 1..Len(file.layers) : startswith_nominal(file.layers[i].name)
         THEN NoGdf
         ELSE LET gdf == augment_gdf_with_metadata(
                            file, read_nominal_layers(file, file.layers), code, satellite_name)
              IN  [ok |-> TRUE, columns |-> gdf.columns, rows |-> gdf.rows]

----------------------------------------------------------------------------
(* Query engine: collect_acq_plans_over_location *)

EmptyDataFrame == [columns |-> <<>>, rows |-> <<>>]

\* Index.union(..., sort=False): the columns of cols, then the new ones of more
union_columns(cols, more) == cols \o SelectSeq(more, LAMBDA c : c \notin Range(cols))

RECURSIVE concat_columns(_)
\* the column index pd.concat builds: first appearance order over the frames
concat_columns(frames) ==
    IF frames = <<>> THEN <<>>
    ELSE union_columns(concat_columns(SubSeq(frames, 1, Len(frames) - 1)),
                       frames[Len(frames)].columns)

RECURSIVE concat_rows(_)
concat_rows(frames) ==
    IF frames = <<>> THEN <<>> ELSE Head(frames).rows \o concat_rows(Tail(frames))

RECURSIVE drop_duplicate_ids(_, _)
drop_duplicate_ids(rows, seen) ==
    IF rows = <<>> THEN <<>>
    ELSE IF Head(rows)["id"] \in seen
         THEN drop_duplicate_ids(Tail(rows), seen)
         ELSE <<Head(rows)>> \o drop_duplicate_ids(Tail(rows), seen \cup {Head(rows)["id"]})

\* a concatenation that keeps one row per acquisition id
pd_concat_drop_duplicates(frames) ==
    LET cols == concat_columns(frames)
        rows == drop_duplicate_ids(concat_rows(frames), {})
    IN  [columns |-> cols,
         rows    |-> [i \in 1..Len(rows) |->
                        [c \in Range(cols) |->
                            IF c \in DOMAIN rows[i] THEN rows[i][c] ELSE None]]]

\* pd.concat(frames, ignore_index=True): a column a frame lacks is NaN in its rows
pd_concat(frames) ==
    LET cols == concat_columns(frames)
        rows == concat_rows(frames)
    IN  [columns |-> cols,
         rows    |-> [i \in 1..Len(rows) |->
                        [c \in Range(cols) |->
                            IF c \in DOMAIN rows[i] THEN rows[i][c] ELSE None]]]

RECURSIVE matches_by_satellite(_, _)
\* the loop over kml_data_objects.items()
matches_by_satellite(objects, point) ==
    IF objects = <<>> THEN <<>>
    ELSE LET gdf == Head(objects).gdf
             matches == SelectSeq(gdf.rows, LAMBDA r : contains(r["geometry"], point))
         IN  (IF matches # <<>>
              THEN <<[columns |-> gdf.columns, rows |-> matches]>>
              ELSE <<>>)
             \o matches_by_satellite(Tail(objects), point)

\* def collect_acq_plans_over_location(lat, lon, kml_data_objects); point is (lon, lat)
collect_acq_plans_over_location(point, objects) ==
    LET found == matches_by_satellite(objects, point)
    IN  IF found # <<>> THEN pd_concat(found) ELSE EmptyDataFrame

----------------------------------------------------------------------------
(* Export: the body of the location loop of __main__ *)

\* the date-times the model's documents use
DayOf == ("2024-01-01" :> 1) @@ ("2024-01-02" :> 2) @@ ("2024-01-03" :> 3)
            @@ ("2024-01-04" :> 4) @@ ("2024-01-05" :> 5) @@ ("2024-01-09" :> 9)

\* pd.to_datetime(value, errors='coerce'): <<day>>, or <<>> for NaT
to_datetime(value) ==
    IF value # None /\ Len(value) = 1 /\ value[1] \in DOMAIN DayOf
    THEN <<DayOf[value[1]]>>
    ELSE <<>>

\* for column in TABLE_COLUMNS: if column not in location_df.columns: location_df[column] = ""
add_missing_columns(df) ==
    LET cols == union_columns(df.columns, TABLE_COLUMNS)
    IN  [columns |-> cols,
         rows    |-> [i \in 1..Len(df.rows) |->
                        [c \in Range(cols) |->
                            IF c \in DOMAIN df.rows[i] THEN df.rows[i][c] ELSE <<>>]]]

\* a loop body that exports the rows in the order the query returned them
unsorted_indexers(keys) == {[i \in 1..Len(keys) |-> i]}

\* the indexers sort_values(by=..., key=...) may return for these keys: valid keys
\* ascending, NaT last in their original order (na_position='last'); the default
\* kind='quicksort' leaves the order of equal keys open
sort_indexers(keys) ==
    LET n == Len(keys)
    IN  {ix \in Permutations(1..n) :
            \A i, j \in 1..n : i < j =>
                \/ keys[ix[i]] # <<>> /\ keys[ix[j]] = <<>>
                \/ keys[ix[i]] # <<>> /\ keys[ix[j]] # <<>>
                     /\ keys[ix[i]][1] <= keys[ix[j]][1]
                \/ keys[ix[i]] = <<>> /\ keys[ix[j]] = <<>> /\ ix[i] < ix[j]}

\* a selection that keeps the schema columns in the frame's own column order
select_in_frame_order(df, columns) ==
    LET kept == SelectSeq(df.columns, LAMBDA c : c \in Range(columns))
    IN  [columns |-> kept,
         rows    |-> [i \in 1..Len(df.rows) |-> [c \in Range(kept) |-> df.rows[i][c]]]]

\* location_df[TABLE_COLUMNS]
select_columns(df, columns) ==
    [columns |-> columns,
     rows    |-> [i \in 1..Len(df.rows) |-> [c \in Range(columns) |-> df.rows[i][c]]]]

reorder(df, ix) ==
    [columns |-> df.columns, rows |-> [i \in 1..Len(df.rows) |-> df.rows[ix[i]]]]

\* the keys the sort compares: the TimeSpan.begin column parsed as date-times
sort_keys(df) == [i \in 1..Len(df.rows) |-> to_datetime(df.rows[i]["TimeSpan.begin"])]

\* table_text + "\n" for the query's result, sorted by the indexer ix
export_text(location_df, ix) ==
    dataframe_to_tsv(select_columns(reorder(add_missing_columns(location_df), ix),
                                    TABLE_COLUMNS)) \o <<"\n">>

----------------------------------------------------------------------------
(* The remote servers *)

\* curl -L -sS -o local_filepath kml_url: its exit status and the file it leaves.
\* Without --fail an HTTP error status still exits 0 and saves the error body.
curl(answer) ==
    CASE answer.net = "ok"         -> [exit_ok |-> TRUE,  file |-> answer.doc]
      [] answer.net = "http_error" -> [exit_ok |-> TRUE,  file |-> ErrorPage]
      [] answer.net = "no_route"   -> [exit_ok |-> FALSE, file |-> NoFile]
      [] OTHER                     -> [exit_ok |-> FALSE, file |-> PartialFile]

\* what a server may answer to one download
Answers ==
    {[net |-> "ok", doc |-> d] : d \in DocMenu}
        \cup {[net |-> n, doc |-> NoFile] : n \in {"http_error", "no_route", "cut_off"}}

SatelliteSet == Range(satellites)

LocationNames == {locations[i].name : i \in DOMAIN locations}

OutputFiles == {locations[i].file : i \in DOMAIN locations}

NotCalled == [called |-> FALSE, exit_ok |-> FALSE, file |-> NoFile]

----------------------------------------------------------------------------
(* The program: __main__ *)

FnIdle ==
    /\ fn_pc = "off"
    /\ fn_value = <<>>
    /\ fn_cell = <<>>
    /\ fn_cell2 = <<>>
    /\ fn_point = <<0, 0>>
    /\ fn_objects = <<>>
    /\ fn_result = EmptyDataFrame

\* the state of a run before its first statement, over the cache directory dir
RunStart(dir) ==
    /\ index_page = "unread"
    /\ asked = {}
    /\ latest_kml_filenames = <<>>
    /\ pending = <<>>
    /\ kml_data_objects = <<>>
    /\ todo = <<>>
    /\ cache = dir
    /\ got = [s \in SatelliteSet |-> NotCalled]
    /\ fetched = {}
    /\ reused = {}
    /\ queried = [l \in LocationNames |-> EmptyDataFrame]
    /\ indexer = [l \in LocationNames |-> <<>>]
    /\ written = [f \in OutputFiles |-> <<>>]
    /\ writes = <<>>

Init ==
    /\ pc = "index"
    /\ RunStart([p \in CachePaths |-> NoFile])
    /\ FnIdle

\* a script that enters the download and query part whatever the index gave
run_proceeds_anyway(links) == TRUE

\* `if latest_kml_filenames:`
run_proceeds(links) == links # <<>>

\* where the run goes once latest_kml_filenames is known: into the download loop,
\* past an empty download loop into the location loop, or to the final else
AfterIndex(page, links) ==
    /\ index_page' = page
    /\ latest_kml_filenames' = links
    /\ pending' = links
    /\ pc' = IF ~run_proceeds(links) THEN "done"
             ELSE IF links # <<>> THEN "load" ELSE "query"
    /\ todo' = IF run_proceeds(links) /\ links = <<>> THEN locations ELSE todo
    /\ UNCHANGED <<kml_data_objects, cache, got, fetched, reused, asked, queried,
                   indexer, written, writes>>
    /\ UNCHANGED fnVars

\* fetch_latest_kml_links: the request fails; {} is returned
IndexFetchFails ==
    /\ pc = "index"
    /\ AfterIndex("error", <<>>)

\* fetch_latest_kml_links: the page is read; each satellite whose heading and
\* first link are found gets its file name, in the order of `satellites`
IndexFetched ==
    /\ pc = "index"
    /\ \E found \in SUBSET SatelliteSet :
          AfterIndex("ok", SelectSeq(satellites, LAMBDA s : s \in found))

\* a staleness check that looks into the file instead of at its existence
path_holds_document(dir, path) == dir[path].kind = "kml"

\* os.path.exists(local_filepath)
path_exists(dir, path) == dir[path] # NoFile

\* a loop that gives up at the first satellite without a GeoDataFrame
remaining_until_failure(rest, kml_object) == IF kml_object.ok THEN rest ELSE <<>>

\* the satellites the download loop goes on with after one iteration
remaining(rest, kml_object) == rest

\* one iteration of the download loop: download_and_parse_kml(satellite, filename,
\* output_directory) and the insertion of its result into kml_data_objects
LoadSatellite ==
    /\ pc = "load"
    /\ pending # <<>>
    /\ LET satellite == Head(pending)
           filename == KmlFilename(satellite)
           path == local_filepath(filename)
           exists == path_exists(cache, path)
       IN  \E answer \in Answers :
           LET download == IF exists THEN [exit_ok |-> TRUE, file |-> cache[path]]
                                     ELSE curl(answer)
               kml_object == IF download.exit_ok
                             THEN parse_kml(download.file,
                                            layer_code(satellite, filename), satellite)
                             ELSE NoGdf
               rest == remaining(Tail(pending), kml_object)
           IN  /\ cache' = [cache EXCEPT ![path] = download.file]
               /\ fetched' = IF exists THEN fetched ELSE fetched \cup {path}
               /\ reused' = IF exists THEN reused \cup {path} ELSE reused
               /\ got' = [got EXCEPT ![satellite] =
                            [called |-> TRUE, exit_ok |-> download.exit_ok,
                             file |-> download.file]]
               /\ kml_data_objects' =
                     IF kml_object.ok
                     THEN Append(kml_data_objects,
                                 [satellite |-> satellite,
                                  gdf |-> [columns |-> kml_object.columns,
                                           rows |-> kml_object.rows]])
                     ELSE kml_data_objects
               /\ pending' = rest
               /\ pc' = IF rest = <<>> THEN "query" ELSE "load"
               /\ todo' = IF rest = <<>> THEN locations ELSE todo
    /\ UNCHANGED <<index_page, latest_kml_filenames, asked, queried, indexer, written,
                   writes>>
    /\ UNCHANGED fnVars

\* a query that hands out the frame of the first satellite with a match itself
result_is_first_match(objects, point) ==
    IF \E i \in DOMAIN objects : matches_by_satellite(<<objects[i]>>, point) # <<>>
    THEN CHOOSE i \in DOMAIN objects :
            /\ matches_by_satellite(<<objects[i]>>, point) # <<>>
            /\ \A j \in 1..(i - 1) : matches_by_satellite(<<objects[j]>>, point) = <<>>
    ELSE 0

\* the satellite whose frame the query's result shares its data with (0: none):
\* gdf[mask].copy(), pd.concat(...) and pd.DataFrame() each build a new frame
result_shares_frame_of(objects, point) == 0

\* kml_data_objects after the loop's `location_df[column] = ""` assignments, which
\* write to the frame location_df names and to every frame sharing its data
after_column_writes(objects, owner) ==
    IF owner = 0 THEN objects
    ELSE [objects EXCEPT ![owner].gdf = add_missing_columns(@)]

\* a loop body without the `if location_df.empty` guard
never_skip_export(location_df) == FALSE

\* `if location_df.empty: ... continue`
skip_export(location_df) == location_df.rows = <<>>

\* one iteration of the location loop: query, sort, export
ProcessLocation ==
    /\ pc = "query"
    /\ todo # <<>>
    /\ LET location == Head(todo)
           location_df == collect_acq_plans_over_location(location.point, kml_data_objects)
       IN  /\ asked' = asked \cup {location.name}
           /\ queried' = [queried EXCEPT ![location.name] = location_df]
           /\ IF skip_export(location_df)
              THEN UNCHANGED <<written, writes, indexer, kml_data_objects>>
              ELSE \E ix \in sort_indexers(sort_keys(add_missing_columns(location_df))) :
                      /\ kml_data_objects' =
                            after_column_writes(
                               kml_data_objects,
                               result_shares_frame_of(kml_data_objects, location.point))
                      /\ indexer' = [indexer EXCEPT ![location.name] = ix]
                      /\ written' = [written EXCEPT
                                      ![location.file] = export_text(location_df, ix)]
                      /\ writes' = Append(writes, location.file)
           /\ todo' = Tail(todo)
           /\ pc' = IF Tail(todo) = <<>> THEN "done" ELSE "query"
    /\ UNCHANGED <<index_page, latest_kml_filenames, pending, cache, got, fetched,
                   reused>>
    /\ UNCHANGED fnVars

\* the program is started again over the same output directory
NewRun ==
    /\ pc = "done"
    /\ pc' = "index"
    /\ index_page' = "unread"
    /\ asked' = {}
    /\ latest_kml_filenames' = <<>>
    /\ pending' = <<>>
    /\ kml_data_objects' = <<>>
    /\ todo' = <<>>
    /\ got' = [s \in SatelliteSet |-> NotCalled]
    /\ fetched' = {}
    /\ reused' = {}
    /\ queried' = [l \in LocationNames |-> EmptyDataFrame]
    /\ indexer' = [l \in LocationNames |-> <<>>]
    /\ written' = [f \in OutputFiles |-> <<>>]
    /\ writes' = <<>>
    /\ UNCHANGED cache
    /\ UNCHANGED fnVars

\* the timeout given to requests.get(url): none (line 49)
index_timeout == "none"

\* the timeout given to curl (--max-time) or to subprocess.run: none (lines 127-129)
download_timeout == "none"

\* the index server accepts the request and never answers: without a timeout
\* requests.get never returns and the run stays where it is ("hung") for ever
IndexNeverAnswers ==
    /\ pc = "index"
    /\ IF index_timeout = "none"
       THEN /\ pc' = "hung"
            /\ UNCHANGED <<index_page, latest_kml_filenames, pending, kml_data_objects,
                           todo, cache, got, fetched, reused, asked, queried, indexer,
                           written, writes>>
            /\ UNCHANGED fnVars
       ELSE AfterIndex("error", <<>>)

\* a document server never answers a download: without a timeout curl, and with
\* it subprocess.run, never returns
DownloadNeverAnswers ==
    /\ pc = "load"
    /\ pending # <<>>
    /\ ~path_exists(cache, local_filepath(KmlFilename(Head(pending))))
    /\ download_timeout = "none"
    /\ pc' = "hung"
    /\ fetched' = fetched \cup {local_filepath(KmlFilename(Head(pending)))}
    /\ UNCHANGED <<index_page, latest_kml_filenames, pending, kml_data_objects, todo,
                   cache, got, reused, asked, queried, indexer, written, writes>>
    /\ UNCHANGED fnVars

\* one run over an empty cache directory, servers that may never answer included
NextLive ==
    \/ IndexFetchFails \/ IndexFetched \/ LoadSatellite \/ ProcessLocation
    \/ IndexNeverAnswers \/ DownloadNeverAnswers

\* the interpreter keeps executing the script as long as a statement can complete
\* (a blocked call is not a statement that can complete). The location loop can
\* take its step exactly when pc = "query" with a location left, so its weak
\* fairness is spelled out with that condition in place of ENABLED.
SpecLive ==
    /\ Init
    /\ [][NextLive]_vars
    /\ WF_vars(IndexFetchFails \/ IndexFetched \/ IndexNeverAnswers)
    /\ WF_vars(LoadSatellite \/ DownloadNeverAnswers)
    /\ \/ []<>~(pc = "query" /\ todo # <<>>)
       \/ []<><<ProcessLocation>>_vars

Next == IndexFetchFails \/ IndexFetched \/ LoadSatellite \/ ProcessLocation \/ NewRun

Spec == Init /\ [][Next]_vars

----------------------------------------------------------------------------
(* _sanitize_for_table on its own *)

Alphabet == {"a", " ", "\t", "\n", "\r", "\""}

Texts == UNION {[1..n -> Alphabet] : n \in 0..MaxLen}

\* the values the function may be given: a string up to MaxLen atoms, a missing
\* value, or any other value, whose str() is such a text
CellValues == Texts \cup {None} \cup {Object(t) : t \in Texts}

InitSanitize ==
    /\ pc = "off"
    /\ RunStart([p \in CachePaths |-> NoFile])
    /\ fn_pc = "value"
    /\ fn_value \in CellValues
    /\ fn_cell = <<>>
    /\ fn_cell2 = <<>>
    /\ fn_point = <<0, 0>>
    /\ fn_objects = <<>>
    /\ fn_result = EmptyDataFrame

Sanitize ==
    /\ fn_pc = "value"
    /\ fn_cell' = sanitize_for_table(fn_value)
    /\ fn_pc' = "sanitized"
    /\ UNCHANGED <<fn_value, fn_cell2, fn_point, fn_objects, fn_result>>
    /\ UNCHANGED mainVars

SanitizeAgain ==
    /\ fn_pc = "sanitized"
    /\ fn_cell2' = sanitize_for_table(fn_cell)
    /\ fn_pc' = "resanitized"
    /\ UNCHANGED <<fn_value, fn_cell, fn_point, fn_objects, fn_result>>
    /\ UNCHANGED mainVars

NextSanitize == Sanitize \/ SanitizeAgain

SpecSanitize == InitSanitize /\ [][NextSanitize]_vars

----------------------------------------------------------------------------
(* collect_acq_plans_over_location on its own *)

\* the record collections a run holds when satellite s was loaded from docOf[s]
LoadedFrom(docOf) ==
    LET parsed(s) == parse_kml(docOf[s], layer_code(s, KmlFilename(s)), s)
        loaded == SelectSeq(satellites, LAMBDA s : parsed(s).ok)
    IN  [i \in 1..Len(loaded) |->
            [satellite |-> loaded[i],
             gdf |-> [columns |-> parsed(loaded[i]).columns,
                      rows |-> parsed(loaded[i]).rows]]]

\* query points (lon, lat): the configured locations, a grid over the unit square
\* and its surroundings, points on footprint boundaries, and a point inside the
\* bounding box of the New York footprint but outside the footprint
QueryPoints ==
    {locations[i].point : i \in DOMAIN locations}
        \cup {<<x, y>> : x \in {-1, 0, 5, 10, 15}, y \in {-1, 0, 5, 10, 15}}
        \cup {<<-7480, 4150>>, <<-7400, 4200>>, <<-12300, 4750>>, <<-7450, 4100>>}

InitQuery ==
    /\ pc = "off"
    /\ RunStart([p \in CachePaths |-> NoFile])
    /\ fn_pc = "point"
    /\ fn_value = <<>>
    /\ fn_cell = <<>>
    /\ fn_cell2 = <<>>
    /\ fn_point \in QueryPoints
    /\ fn_objects \in {LoadedFrom(d) : d \in [SatelliteSet -> DocMenu \cup {NoFile}]}
    /\ fn_result = EmptyDataFrame

Query ==
    /\ fn_pc = "point"
    /\ fn_result' = collect_acq_plans_over_location(fn_point, fn_objects)
    /\ fn_pc' = "queried"
    /\ UNCHANGED <<fn_value, fn_cell, fn_cell2, fn_point, fn_objects>>
    /\ UNCHANGED mainVars

NextQuery == Query

SpecQuery == InitQuery /\ [][NextQuery]_vars

----------------------------------------------------------------------------
(* dataframe_to_tsv on its own *)

MaxRows == 2

MaxCols == 2

TableColumnNames == <<"c1", "c2", "c3">>

\* cell values of a table: missing, empty, plain, with whitespace to collapse,
\* all whitespace, and with a quote character
TableCells == {None, <<>>, <<"a">>, <<" ", "a", "\t">>, <<" ">>, <<"\"">>}

\* the tables with up to MaxRows rows over the first k column names, k up to MaxCols
Tables ==
    UNION {UNION {{[columns |-> SubSeq(TableColumnNames, 1, k), rows |-> rows] :
                      rows \in [1..n -> [Range(SubSeq(TableColumnNames, 1, k)) -> TableCells]]} :
                     n \in 0..MaxRows} :
              k \in 1..MaxCols}

InitTsv ==
    /\ pc = "off"
    /\ RunStart([p \in CachePaths |-> NoFile])
    /\ fn_pc = "table"
    /\ fn_value = <<>>
    /\ fn_cell = <<>>
    /\ fn_cell2 = <<>>
    /\ fn_point = <<0, 0>>
    /\ fn_objects = <<>>
    /\ fn_result \in Tables

\* table_text = dataframe_to_tsv(df): the table is fn_result, the text fn_cell
ToTsv ==
    /\ fn_pc = "table"
    /\ fn_cell' = dataframe_to_tsv(fn_result)
    /\ fn_pc' = "exported"
    /\ UNCHANGED <<fn_value, fn_cell2, fn_point, fn_objects, fn_result>>
    /\ UNCHANGED mainVars

NextTsv == ToTsv

SpecTsv == InitTsv /\ [][NextTsv]_vars

----------------------------------------------------------------------------
(* Properties *)

\* the document with every layer that is not a NOMINAL layer removed
StripOtherLayers(doc) ==
    [doc EXCEPT !.layers = SelectSeq(doc.layers, LAMBDA l : startswith_nominal(l.name))]

CachedFile(satellite) == cache[local_filepath(KmlFilename(satellite))]

Loaded(satellite) ==
    \E i \in DOMAIN kml_data_objects : kml_data_objects[i].satellite = satellite

\* C1: the records of a loaded satellite and all their joined fields are those
\* the parser yields for the document without its non-NOMINAL layers: placemarks
\* outside NOMINAL layers change no record and no joined attribute.
C1_OnlyNominalLayersCount ==
    \A i \in DOMAIN kml_data_objects :
        LET s == kml_data_objects[i].satellite
            stripped == parse_kml(StripOtherLayers(CachedFile(s)),
                                  layer_code(s, KmlFilename(s)), s)
        IN  kml_data_objects[i].gdf.rows = stripped.rows

\* the download loop has finished in this run
LoadingDone == pc \in {"query", "done"} /\ latest_kml_filenames # <<>>

\* the satellite's own download and parse succeeded: curl (or the cache) gave a
\* well-formed document with a NOMINAL layer
OwnSuccess(satellite) ==
    /\ got[satellite].called
    /\ got[satellite].exit_ok
    /\ got[satellite].file.kind = "kml"
    /\ \E i \in DOMAIN got[satellite].file.layers :
          got[satellite].file.layers[i].name[1] = "NOMINAL"

\* a convex ring has the point strictly on the same side of all its edges
InsideConvex(ring, q) ==
    LET turn(i) ==
            LET a == ring[i]
                b == ring[(i % Len(ring)) + 1]
            IN  (b[1] - a[1]) * (q[2] - a[2]) - (b[2] - a[2]) * (q[1] - a[1])
    IN  /\ ring # <<>>
        /\ \/ \A i \in 1..Len(ring) : turn(i) > 0
           \/ \A i \in 1..Len(ring) : turn(i) < 0

\* the locations whose loop iteration has run in this run
Processed ==
    IF pc = "query" THEN {l \in Range(locations) : l \notin Range(todo)}
    ELSE IF pc = "done" /\ latest_kml_filenames # <<>> THEN Range(locations)
    ELSE {}

\* C2: once the download loop is over, every satellite the index yielded was
\* processed, and a satellite is in the record collections exactly if its own
\* download and parse succeeded, whatever happened to the others; every query made
\* afterwards returns the matching records of every loaded satellite.
C2_FailureIsolation ==
    LoadingDone =>
        /\ \A s \in Range(latest_kml_filenames) :
              /\ got[s].called
              /\ Loaded(s) <=> OwnSuccess(s)
        /\ \A l \in Processed : \A i \in DOMAIN kml_data_objects :
              \A r \in DOMAIN kml_data_objects[i].gdf.rows :
                 InsideConvex(kml_data_objects[i].gdf.rows[r]["geometry"], l.point)
                    => \E k \in DOMAIN queried[l.name].rows :
                          queried[l.name].rows[k]["satellite"]
                             = <<kml_data_objects[i].satellite>>

\* a run in which the first satellite failed to download, the second failed to
\* parse, and the third was loaded and matched a location
C2_Witness ==
    /\ pc = "done"
    /\ latest_kml_filenames = satellites
    /\ ~got["Sentinel-2A"].exit_ok
    /\ got["Sentinel-2B"].exit_ok /\ ~Loaded("Sentinel-2B")
    /\ Loaded("Sentinel-2C")
    /\ writes # <<>>

\* C3: a step fetches a document only if no file exists at its cache path, and
\* a file that exists at a cache path is left as it is and never fetched again.
C3_FetchOnlyWhenAbsent ==
    [][\A p \in CachePaths :
          /\ p \in fetched' /\ p \notin fetched => cache[p] = NoFile
          /\ cache[p] # NoFile => /\ cache'[p] = cache[p]
                                  /\ (p \in fetched' => p \in fetched)]_vars

\* a run reused a cached file that is no planning document
C3_Witness ==
    \E p \in reused : cache[p].kind # "kml" /\ p \notin fetched


\* the rows the query should return: per satellite in intake order, the rows whose
\* (convex) footprint has the point strictly inside
RECURSIVE ExpectedMatches(_, _)
ExpectedMatches(objects, point) ==
    IF objects = <<>> THEN <<>>
    ELSE SelectSeq(Head(objects).gdf.rows, LAMBDA r : InsideConvex(r["geometry"], point))
            \o ExpectedMatches(Tail(objects), point)

SquareRows(rows) == {k \in DOMAIN rows : rows[k]["geometry"] = UnitSquare}

\* C4: the query returns exactly the records, over all satellites, whose footprint
\* contains the point; no record with an empty footprint is returned; the square
\* (0,0),(10,0),(10,10),(0,10) matches the point (5,5) and not the point (15,15).
C4_QueryReturnsContainingRecords ==
    fn_pc = "queried" =>
        LET expected == ExpectedMatches(fn_objects, fn_point)
            result == fn_result.rows
        IN  /\ Len(result) = Len(expected)
            /\ \A k \in DOMAIN expected : \A c \in DOMAIN expected[k] :
                  result[k][c] = expected[k][c]
            /\ \A k \in DOMAIN result : result[k]["geometry"] # <<>>
            /\ fn_point = <<5, 5>> =>
                  Cardinality(SquareRows(result))
                     = Cardinality(UNION {{<<i, k>> : k \in SquareRows(fn_objects[i].gdf.rows)} :
                                             i \in DOMAIN fn_objects})
            /\ fn_point = <<15, 15>> => SquareRows(result) = {}

\* the point (5,5) was queried against two satellites holding the square footprint
C4_Witness ==
    /\ fn_pc = "queried"
    /\ fn_point = <<5, 5>>
    /\ Cardinality(SquareRows(fn_result.rows)) = 2
    /\ \E i \in DOMAIN fn_objects : \E k \in DOMAIN fn_objects[i].gdf.rows :
          fn_objects[i].gdf.rows[k]["geometry"] = <<>>

\* the rows of a written TSV file below its header, each as its tab-separated fields
WrittenLines(text) == str_split_on(SubSeq(text, 1, Len(text) - 1), "\n")

WrittenRows(text) ==
    LET lines == WrittenLines(text)
    IN  [k \in 1..(Len(lines) - 1) |-> str_split_on(lines[k + 1], "\t")]

ColumnIndex(column) == CHOOSE i \in DOMAIN TABLE_COLUMNS : TABLE_COLUMNS[i] = column

\* the keys the query's rows have, in the order the query returned them
QueriedKeys(l) == sort_keys(add_missing_columns(queried[l]))

\* C5: in every written table the rows are in ascending order of TimeSpan.begin
\* parsed as a date-time, and every row whose value is missing or does not parse
\* comes after all rows whose value parses.
C5_RowsAscendingByBegin ==
    \A f \in OutputFiles : written[f] # <<>> =>
        LET rows == WrittenRows(written[f])
            key(i) == to_datetime(rows[i][ColumnIndex("TimeSpan.begin")])
        IN  \A i, j \in DOMAIN rows : i < j =>
                /\ key(i) = <<>> => key(j) = <<>>
                /\ key(i) # <<>> /\ key(j) # <<>> => key(i)[1] <= key(j)[1]

\* a table was written whose query result had a later date before an earlier one
\* and an unparsable begin before a parsable one
C5_Witness ==
    \E l \in Range(locations) :
        /\ written[l.file] # <<>>
        /\ LET k == QueriedKeys(l.name)
           IN  /\ \E i, j \in DOMAIN k : i < j /\ k[i] = <<>> /\ k[j] # <<>>
               /\ \E i, j \in DOMAIN k :
                     i < j /\ k[i] # <<>> /\ k[j] # <<>> /\ k[i][1] > k[j][1]

\* C6: the export sort is stable: rows whose TimeSpan.begin parse to the same
\* date-time, and rows that both fail to parse, keep the relative order in which
\* the query returned them.
C6_SortIsStable ==
    \A l \in LocationNames : indexer[l] # <<>> =>
        LET k == QueriedKeys(l)
            ix == indexer[l]
        IN  \A i, j \in DOMAIN ix : i < j /\ k[ix[i]] = k[ix[j]] => ix[i] < ix[j]

HasMatch(l) ==
    \E i \in DOMAIN kml_data_objects : \E r \in DOMAIN kml_data_objects[i].gdf.rows :
        InsideConvex(kml_data_objects[i].gdf.rows[r]["geometry"], l.point)

Count(seq, x) == Cardinality({i \in DOMAIN seq : seq[i] = x})

\* C7: a TSV file is written for a location exactly if its loop iteration ran and
\* at least one record matched it in this run; then it is written exactly once, to
\* the location's own path, which no other location shares; a location without
\* matches causes no write.
C7_FileIffMatched ==
    \A l \in Range(locations) :
        /\ Count(writes, l.file) = IF l \in Processed /\ HasMatch(l) THEN 1 ELSE 0
        /\ written[l.file] # <<>> <=> Count(writes, l.file) = 1
        /\ \A m \in Range(locations) : m.name # l.name => m.file # l.file

\* a finished run that loaded records, wrote the table of one location and none
\* for another
C7_Witness ==
    /\ pc = "done"
    /\ kml_data_objects # <<>>
    /\ \E l, m \in Range(locations) :
          Count(writes, l.file) = 1 /\ written[l.file] # <<>> /\ Count(writes, m.file) = 0

\* C8: every written table has exactly the 18 columns of TABLE_COLUMNS, in that
\* order, on its header and on every row, one row per matched record; a schema
\* column the matched records do not carry is the empty string in every row.
C8_ExactlyTheSchemaColumns ==
    /\ Len(TABLE_COLUMNS) = 18
    /\ \A l \in Range(locations) : written[l.file] # <<>> =>
          LET lines == WrittenLines(written[l.file])
              rows == WrittenRows(written[l.file])
          IN  /\ Len(rows) = Len(queried[l.name].rows)
              /\ str_split_on(lines[1], "\t")
                    = [i \in DOMAIN TABLE_COLUMNS |-> <<TABLE_COLUMNS[i]>>]
              /\ \A k \in DOMAIN rows : Len(rows[k]) = Len(TABLE_COLUMNS)
              /\ \A c \in DOMAIN TABLE_COLUMNS :
                    TABLE_COLUMNS[c] \notin Range(queried[l.name].columns)
                       => \A k \in DOMAIN rows : rows[k][c] = <<>>

\* a table was written from records that carry no "Name" column
C8_Witness ==
    \E l \in Range(locations) :
        /\ written[l.file] # <<>>
        /\ "Name" \notin Range(queried[l.name].columns)
        /\ Len(queried[l.name].rows) >= 2

\* C9: a sanitized cell holds no tab, newline or carriage return, no leading or
\* trailing whitespace and no two whitespace characters in a row; a missing value
\* becomes the empty string; sanitizing a sanitized cell returns it unchanged.
C9_SanitizedCell ==
    fn_pc \in {"sanitized", "resanitized"} =>
        /\ \A i \in DOMAIN fn_cell : fn_cell[i] \notin {"\t", "\n", "\r"}
        /\ fn_cell # <<>> =>
              fn_cell[1] \notin Whitespace /\ fn_cell[Len(fn_cell)] \notin Whitespace
        /\ \A i \in 1..(Len(fn_cell) - 1) :
              ~(fn_cell[i] \in Whitespace /\ fn_cell[i + 1] \in Whitespace)
        /\ fn_value = None => fn_cell = <<>>
        /\ fn_pc = "resanitized" => fn_cell2 = fn_cell

\* the table handed to dataframe_to_tsv for a location, rows in exported order
ExportedFrame(l) ==
    select_columns(reorder(add_missing_columns(queried[l]), indexer[l]), TABLE_COLUMNS)

\* C10: no quoting is applied: every sanitized cell value appears verbatim
\* between its tab separators, and the written file ends with exactly one newline.
C10_NoQuoting ==
    \A l \in Range(locations) : written[l.file] # <<>> =>
        LET text == written[l.file]
            rows == WrittenRows(text)
            df == ExportedFrame(l.name)
        IN  /\ text[Len(text)] = "\n"
            /\ text[Len(text) - 1] # "\n"
            /\ \A k \in DOMAIN df.rows : \A c \in DOMAIN TABLE_COLUMNS :
                  rows[k][c] = sanitize_for_table(df.rows[k][TABLE_COLUMNS[c]])


\* the table recovered from a written file: lines split on tabs, keyed by the header
RecoveredFrame(text) ==
    LET header == str_split_on(WrittenLines(text)[1], "\t")
        rows == WrittenRows(text)
        columns == [i \in DOMAIN header |-> header[i][1]]
    IN  [columns |-> columns,
         rows    |-> [k \in DOMAIN rows |->
                        [c \in Range(columns) |->
                            rows[k][CHOOSE i \in DOMAIN columns : columns[i] = c]]]]

\* C11: splitting a written file into lines and each line on tabs, keyed by the
\* header row, recovers every sanitized field value of every row exactly, and
\* exporting the recovered table again yields the same file byte for byte.
C11_RoundTrip ==
    \A l \in Range(locations) : written[l.file] # <<>> =>
        LET text == written[l.file]
            recovered == RecoveredFrame(text)
            df == ExportedFrame(l.name)
        IN  /\ recovered.columns = TABLE_COLUMNS
            /\ Len(recovered.rows) = Len(df.rows)
            /\ \A k \in DOMAIN df.rows : \A c \in Range(TABLE_COLUMNS) :
                  recovered.rows[k][c] = sanitize_for_table(df.rows[k][c])
            /\ dataframe_to_tsv(recovered) \o <<"\n">> = text

ExpectedLayer ==
    ("Sentinel-2A" :> <<"S", "2", "A">>) @@ ("Sentinel-2B" :> <<"S", "2", "B">>)
        @@ ("Sentinel-2C" :> <<"S", "E", "N">>)

MatchingRows(object, point) ==
    {r \in DOMAIN object.gdf.rows : InsideConvex(object.gdf.rows[r]["geometry"], point)}

TaggedRows(result, satellite) ==
    {k \in DOMAIN result.rows : result.rows[k]["satellite"] = <<satellite>>}

\* C13: when several satellites hold records whose footprint contains the point,
\* the result has one row for each such record of each satellite (none dropped,
\* none merged), and each row carries the satellite and layer tag of the
\* satellite whose document it was parsed from.
C13_OneRowPerSatelliteRecord ==
    fn_pc = "queried" =>
        \A i \in DOMAIN fn_objects :
            LET object == fn_objects[i]
                mine == MatchingRows(object, fn_point)
                rows == TaggedRows(fn_result, object.satellite)
            IN  /\ Cardinality(rows) = Cardinality(mine)
                /\ \A k \in rows :
                      /\ fn_result.rows[k]["layer"] = ExpectedLayer[object.satellite]
                      /\ \E r \in mine :
                            /\ object.gdf.rows[r]["id"] = fn_result.rows[k]["id"]
                            /\ object.gdf.rows[r]["geometry"] = fn_result.rows[k]["geometry"]

\* two satellites loaded from the same document both matched the point
C13_Witness ==
    /\ fn_pc = "queried"
    /\ \E i, j \in DOMAIN fn_objects :
          /\ i # j
          /\ fn_objects[i].gdf.rows = [r \in DOMAIN fn_objects[j].gdf.rows |->
                [fn_objects[j].gdf.rows[r] EXCEPT
                    !["satellite"] = <<fn_objects[i].satellite>>,
                    !["layer"] = ExpectedLayer[fn_objects[i].satellite]]]
          /\ MatchingRows(fn_objects[i], fn_point) # {}
          /\ Cardinality(TaggedRows(fn_result, fn_objects[i].satellite)) >= 1
          /\ Cardinality(TaggedRows(fn_result, fn_objects[j].satellite)) >= 1


\* C14: the exported table is de-duplicated: it never holds two rows for the same
\* acquisition (same satellite and same placemark name/id), also when that name
\* occurs in more than one NOMINAL layer of the satellite's document.
C14_ExportDeduplicated ==
    \A l \in Range(locations) : indexer[l.name] # <<>> =>
        LET q == queried[l.name].rows
            ix == indexer[l.name]
            rows == WrittenRows(written[l.file])
        IN  \A k, m \in DOMAIN rows : k < m =>
                ~(/\ q[ix[k]]["satellite"] = q[ix[m]]["satellite"]
                  /\ rows[k][ColumnIndex("id")] = rows[m][ColumnIndex("id")])


\* nothing of the run's download, parse, query and export part has happened
Untouched ==
    /\ fetched = {} /\ reused = {}
    /\ \A s \in SatelliteSet : ~got[s].called
    /\ kml_data_objects = <<>>
    /\ asked = {}
    /\ writes = <<>>
    /\ \A f \in OutputFiles : written[f] = <<>>

\* every satellite the index yielded was downloaded or reused, every location queried
AllHandled ==
    /\ \A s \in Range(latest_kml_filenames) : got[s].called
    /\ asked = LocationNames

C16_RunTerminates == (pc = "index") ~> (pc = "done")

\* the document a loaded satellite's records were parsed from
DocumentOf(satellite) == got[satellite].file

\* the value a placemark supplies for a joined field, None when it supplies none
Supplied(pm, field) ==
    IF field \in DOMAIN placemark_entry(pm) THEN placemark_entry(pm)[field] ELSE None

\* the placemarks of the document that carry the name
Named(doc, n) ==
    SelectSeq(all_placemarks(doc),
              LAMBDA pm : pm.name # None /\ pm.name # <<>> /\ str_strip(pm.name) = n)

\* per-field merge in document order, last write wins: the value of the last
\* placemark of that name that supplies the field
MergedField(doc, n, field) ==
    LET suppliers == SelectSeq(Named(doc, n), LAMBDA pm : Supplied(pm, field) # None)
    IN  IF suppliers = <<>> THEN None ELSE Supplied(suppliers[Len(suppliers)], field)

\* the joined columns that hold a metadata field as it is, with the field's key
JoinedKey(column) ==
    CASE column = "TimeSpan.begin" -> "begin"
      [] column = "TimeSpan.end"   -> "end"
      [] OTHER                     -> column

JoinedColumns ==
    {"TimeSpan.begin", "TimeSpan.end", "icon", "Polygon"}
        \cup (Range(extended_fields) \ {"timestamp"})

\* C17: when several placemarks of a document share a name, every joined field of
\* a record of that name holds the value of the last placemark of the name that
\* supplies the field; a field only an earlier placemark supplies is retained.
C17_MergePerField ==
    \A i \in DOMAIN kml_data_objects :
        LET doc == DocumentOf(kml_data_objects[i].satellite)
            rows == kml_data_objects[i].gdf.rows
        IN  \A r \in DOMAIN rows :
               LET n == rows[r][doc.name_col]
               IN  Len(Named(doc, n)) > 1 =>
                      \A c \in JoinedColumns :
                          rows[r][c] = MergedField(doc, n, JoinedKey(c))

\* the record was made from a placemark with a name
HasName(row) ==
    \E c \in {"Name", "name"} : c \in DOMAIN row /\ row[c] # None /\ row[c] # <<>>

\* C18: a placemark without a name yields no record: every record of a loaded
\* satellite, and so every row a query returns for export, has a name.
C18_NamelessDropped ==
    /\ \A i \in DOMAIN kml_data_objects :
          \A r \in DOMAIN kml_data_objects[i].gdf.rows :
             HasName(kml_data_objects[i].gdf.rows[r])
    /\ \A l \in LocationNames :
          \A r \in DOMAIN queried[l].rows : HasName(queried[l].rows[r])

\* the complete body of a successful download: one of the planning documents
CompleteDocument(file) == file \in DocMenu

\* C19: over any sequence of runs, a file that exists at a cache path is the
\* complete body of a successful download, and so is every file a call reused
\* instead of fetching: no failed download leaves a file behind at the cache path.
C19_CacheIntegrity ==
    /\ \A p \in CachePaths : path_exists(cache, p) => CompleteDocument(cache[p])
    /\ \A p \in reused : CompleteDocument(cache[p])

\* the placemarks the records of a document were read from, in record order
RecordPlacemarks(doc) ==
    FlattenPlacemarks(SelectSeq(doc.layers, LAMBDA l : startswith_nominal(l.name)))

\* C20: every record made from a named placemark has its joined columns from that
\* very placemark, the one whose geometry is the record's footprint: its Polygon
\* text is the text of the footprint and its time span, icon and extended
\* attributes are that placemark's; so the Polygon of every row a query returns
\* for export describes the footprint that contained the point.
C20_JoinedFromOwnPlacemark ==
    /\ \A i \in DOMAIN kml_data_objects :
          LET doc == DocumentOf(kml_data_objects[i].satellite)
              rows == kml_data_objects[i].gdf.rows
              pms == RecordPlacemarks(doc)
          IN  /\ Len(rows) = Len(pms)
              /\ \A r \in DOMAIN rows :
                    HasName(rows[r]) =>
                       /\ rows[r]["geometry"] = pms[r].coords
                       /\ \A c \in JoinedColumns :
                             rows[r][c] = Supplied(pms[r], JoinedKey(c))
    /\ \A l \in LocationNames :
          \A r \in DOMAIN queried[l].rows :
             HasName(queried[l].rows[r]) =>
                queried[l].rows[r]["Polygon"] = polygon_text(queried[l].rows[r]["geometry"])

\* the lines of a text, and the tab-separated fields of a line
TextLines(text) == str_split_on(text, "\n")

LineFields(line) == str_split_on(line, "\t")

\* C21: for a table with n rows and k columns the text dataframe_to_tsv returns
\* has exactly n+1 lines, each with exactly k tab-separated fields, also when
\* trailing cells of the last row, or whole trailing rows, sanitize to nothing.
C21_LinesAndFields ==
    fn_pc = "exported" =>
        LET lines == TextLines(fn_cell)
        IN  /\ Len(lines) = Len(fn_result.rows) + 1
            /\ \A i \in DOMAIN lines :
                  Len(LineFields(lines[i])) = Len(fn_result.columns)

====
